---- MODULE Spec2Model ----
(***************************************************************************)
(* The finance module (FinancialPatrimony) of pascom-app as a state         *)
(* machine: the stored ledger (financial_transactions, financial_accounts), *)
(* each client's cached copy of it (the accounts / transactions props that  *)
(* refreshData fills), and each client's transaction form, editingId and    *)
(* modal flags.  One action per UI handler.  A handler's backend calls run  *)
(* in the order the code issues them; refreshData is a separate step      *)
(* because onRefresh() is started and not awaited.                          *)
(***************************************************************************)
EXTENDS Integers, Sequences, FiniteSets, TLC

\* ------------------------------------------------------------------ bounds
\* Saves and approvals of a session whose write to financial_transactions
\* goes through, when the session is the only one.
MaxOps == 2
\* The same for each session when two are open.
MaxOpsEach == 1
\* Deletions of a session whose write to financial_transactions goes through.
MaxDeletes == 1
\* Stored balances are kept within -MaxBal .. MaxBal.
MaxBal == 4
MaxOpsLifetime == 3
MaxVotes == 4
MaxSlotWrites == 3

\* Browser sessions.
Clients == {1, 2}
\* The ids the backend assigns to inserted rows, in the order it assigns them.
TxIdSeq == <<"t1", "t2", "t3", "t4", "t5", "t6">>
\* '' / null for an id-valued field.
NoId == ""
\* Ids of the two rows of financial_accounts.
Caixa == "Caixa"
Banco == "Banco"
Accounts == {Caixa, Banco}

\* ----------------------------------------------------------------- strings
\* Role names are sequences of characters so that toLowerCase and includes
\* are computed, not assumed.
UpperChars == <<"A","B","C","D","E","F","G","H","I","J","K","L","M",
                "N","O","P","Q","R","S","T","U","V","W","X","Y","Z">>
LowerChars == <<"a","b","c","d","e","f","g","h","i","j","k","l","m",
                "n","o","p","q","r","s","t","u","v","w","x","y","z">>

LowerChar(ch) ==
  IF \E i \in 1..Len(UpperChars) : UpperChars[i] = ch
  THEN LowerChars[CHOOSE i \in 1..Len(UpperChars) : UpperChars[i] = ch]
  ELSE ch

\* Variant of toLowerCase: the case is kept.
keepCase(s) == s

\* String.prototype.toLowerCase over the letters A-Z.
toLowerCase(s) == [i \in 1..Len(s) |-> LowerChar(s[i])]

includes(s, sub) ==
  \E i \in 0..(Len(s) - Len(sub)) : SubSeq(s, i + 1, i + Len(sub)) = sub

StrCoordenador == <<"C","o","o","r","d","e","n","a","d","o","r">>
StrTesoureiro == <<"T","e","s","o","u","r","e","i","r","o">>
StrFinanceiro == <<"F","i","n","a","n","c","e","i","r","o">>
StrADMIN == <<"A","D","M","I","N">>

StrAgente == <<"A","g","e","n","t","e">>
StrEditor == <<"E","d","i","t","o","r">>
StrCoorden == <<"c","o","o","r","d","e","n">>
StrAdmin == <<"a","d","m","i","n">>

UpperChar(ch) ==
  IF \E i \in 1..Len(LowerChars) : LowerChars[i] = ch
  THEN UpperChars[CHOOSE i \in 1..Len(LowerChars) : LowerChars[i] = ch]
  ELSE ch

\* The word w with the letters at the positions in mask in upper case.
withCase(w, mask) == [i \in 1..Len(w) |-> IF i \in mask THEN UpperChar(w[i]) ELSE w[i]]

\* The roles a logged-in profile carries in the model.
Roles == {StrCoordenador, StrTesoureiro, StrFinanceiro, StrADMIN}

isCoordinator(r) ==
  IF r = <<>> THEN FALSE
  ELSE LET l == toLowerCase(r)
       IN  \/ l = <<"c","o","o","r","d","e","n","a","d","o","r">>
           \/ l = <<"a","d","m","i","n">>
           \/ includes(l, <<"c","o","o","r","d","e","n">>)

\* A value passed as role: null/undefined, or a string.
NullRole == [isNull |-> TRUE, text |-> <<>>]
RoleOf(text) == [isNull |-> FALSE, text |-> text]

\* isCoordinator(role) for any value: !role holds for null, undefined and ''.
isCoordinatorOf(v) == IF v.isNull THEN FALSE ELSE isCoordinator(v.text)

\* The values isCoordinator is applied to: null, the empty string, the role
\* names of the application, and 'coorden' and 'admin' in every mix of upper
\* and lower case, alone, inside a longer word and cut short.
RoleInputs ==
  {NullRole, RoleOf(<<>>), RoleOf(StrTesoureiro), RoleOf(StrAgente), RoleOf(StrEditor),
   RoleOf(StrFinanceiro), RoleOf(StrCoordenador), RoleOf(StrADMIN)}
  \cup {RoleOf(pre \o withCase(StrCoorden, m) \o post) :
          pre \in {<<>>, <<"V","i","c","e","-">>}, m \in SUBSET (1..Len(StrCoorden)),
          post \in {<<>>, <<"a","d","o","r","a">>}}
  \cup {RoleOf(withCase(StrAdmin, m) \o post) :
          m \in SUBSET (1..Len(StrAdmin)), post \in {<<>>, <<"s">>}}
  \cup {RoleOf(withCase(SubSeq(StrCoorden, 1, n), {1})) : n \in 1..(Len(StrCoorden) - 1)}

\* UserRole.ADMIN = 'Coordenador'
UserRoleADMIN == StrCoordenador

\* isAdmin of PostCard in Feed: currentUser.role === UserRole.ADMIN ||
\* role === 'admin' || role === 'Admin' ||
\* (typeof role === 'string' && role.toLowerCase().includes('coorden'))
feedIsAdmin(v) ==
  IF v.isNull THEN FALSE
  ELSE \/ v.text = UserRoleADMIN
       \/ v.text = <<"a","d","m","i","n">>
       \/ v.text = <<"A","d","m","i","n">>
       \/ includes(toLowerCase(v.text), <<"c","o","o","r","d","e","n">>)

\* isAdmin of Schedules, the same expression.
schedulesIsAdmin(v) ==
  IF v.isNull THEN FALSE
  ELSE \/ v.text = UserRoleADMIN
       \/ v.text = <<"a","d","m","i","n">>
       \/ v.text = <<"A","d","m","i","n">>
       \/ includes(toLowerCase(v.text), <<"c","o","o","r","d","e","n">>)

\* isAdmin of Inventory, the same expression.
inventoryIsAdmin(v) ==
  IF v.isNull THEN FALSE
  ELSE \/ v.text = UserRoleADMIN
       \/ v.text = <<"a","d","m","i","n">>
       \/ v.text = <<"A","d","m","i","n">>
       \/ includes(toLowerCase(v.text), <<"c","o","o","r","d","e","n">>)

NotCalled ==
  [called |-> FALSE, value |-> FALSE, feed |-> FALSE, schedules |-> FALSE, inventory |-> FALSE]

\* ---------------------------------------------------------- enum values
INCOME == "Entrada"
EXPENSE == "Saida"
TRANSFER == "Transferencia"
PLANNED == "Previsto"
PAID == "Pago"
CANCELLED == "Cancelado"
PENDING_APPROVAL == "Aguardando Aprovacao"
Statuses == {PLANNED, PAID, CANCELLED, PENDING_APPROVAL}

\* ------------------------------------------------------ number <-> string
Digits == <<"0","1","2","3","4","5","6","7","8","9">>
DigitVal(ch) == (CHOOSE i \in 1..10 : Digits[i] = ch) - 1

RECURSIVE Number(_)
\* Number('') is 0; a digit string is read in base ten.
Number(s) ==
  IF s = <<>> THEN 0
  ELSE 10 * Number(SubSeq(s, 1, Len(s) - 1)) + DigitVal(s[Len(s)])

RECURSIVE toString(_)
toString(n) ==
  IF n < 10 THEN <<Digits[n + 1]>>
  ELSE toString(n \div 10) \o <<Digits[(n % 10) + 1]>>

\* What the user does with the modal's inputs before the click on save:
\* "fields" are the inputs they touch (the type buttons, the value, the
\* description, the account select), the other entries what they enter there.
Typing(fields, ty, acct) ==
  [fields |-> fields, type |-> ty, value |-> <<"2">>, description |-> "d",
   accountId |-> acct, projectId |-> NoId]

Typings ==
  {Typing({}, EXPENSE, Caixa),
   Typing({"value", "description", "accountId"}, EXPENSE, Caixa),
   Typing({"type", "value", "description", "accountId"}, INCOME, Caixa),
   Typing({"value", "description", "accountId"}, EXPENSE, Banco),
   Typing({"value", "accountId"}, EXPENSE, Caixa),
   Typing({"value", "description"}, EXPENSE, Caixa)}


\* ------------------------------------------------------------------ state
VARIABLES
  session,              \* session[c]: the browser holds a login session
  role,                 \* role[c]: currentUser.role of session c
  dbAccounts,           \* rows of financial_accounts: [id, balance]
  dbTransactions,       \* rows of financial_transactions
  nextId,               \* index in TxIdSeq of the next id the backend assigns
  opsLeft,              \* opsLeft[c]: saves and approvals c may still write
  deletesLeft,          \* deletesLeft[c]: deletions c may still write
  accounts,             \* accounts[c]: the accounts prop (financialAccounts)
  transactions,         \* transactions[c]: the transactions prop (financialTransactions)
  transactionForm,      \* transactionForm[c], as the program last set it
  editingId,            \* editingId[c], shared by the modals
  isAddingTransaction,  \* isAddingTransaction[c]
  isAddingAccount,      \* isAddingAccount[c]
  accountForm,          \* accountForm[c], as the program last set it
  loading,              \* loading[c]
  last,                 \* the handler invocation that produced this state
  prevAccounts,         \* dbAccounts before that invocation
  prevTransactions,     \* dbTransactions before that invocation
  awaitingApproval,     \* ids a treasurer inserted and no approval has run for
  probe,                \* the latest paid insert, followed until its delete
  dbProjects,           \* rows of financial_projects
  nextProjectId,        \* index in ProjectIdSeq of the next id the backend assigns
  projects,             \* projects[c]: the projects prop (financialProjects)
  projectForm,          \* projectForm[c], as the program last set it
  isAddingProject,      \* isAddingProject[c]
  dbRows,               \* dbRows[k]: rows of the table of page k (tasks, schedules)
  dbNotifications,      \* rows of notifications, without their multiplicity
  nextRowId,            \* nextRowId[k]: index in RowIdSeq of the next id of table k
  isModalOpen,          \* isModalOpen[k] of the component of page k
  pageEditingId,        \* editingId of the component of page k
  pageLoading,          \* loading of the component of page k
  globalError,          \* globalError of the component of page k
  lastSave,             \* the handleSave invocation that produced this state
  dbPoll,               \* poll_options of the stored post: votes of each option
  posts,                \* posts[c]: pollOptions of the post prop of session c
  voteAttempts,         \* clicks on a poll option so far
  votesCast,            \* of these, the votes the backend accepted
  lastVote,             \* the handleVote invocation that produced this state
  dbRoles,              \* roles of the stored schedule: one slot per index
  schedules,            \* schedules[c]: roles of the schedule in the props of session c
  declineModalOpen,     \* declineModalOpen[c]
  declineData,          \* declineData[c]: the roleIndex, 0 for null
  slotWrites,           \* updates of the roles sent so far
  lastSlot,             \* the Schedules handler invocation that produced this state
  roleArg,              \* the value isCoordinator is applied to
  roleResult            \* whether it has been applied, and what it returned

vars == <<session, role, dbAccounts, dbTransactions, nextId, opsLeft, deletesLeft, accounts,
          transactions, transactionForm, editingId, isAddingTransaction,
          isAddingAccount, accountForm, loading, last, prevAccounts, prevTransactions,
          awaitingApproval, probe, dbProjects, nextProjectId, projects, projectForm,
          isAddingProject, dbRows, dbNotifications, nextRowId, isModalOpen,
          pageEditingId, pageLoading, globalError, lastSave, dbPoll, posts, voteAttempts,
          votesCast, lastVote, dbRoles, schedules, declineModalOpen, declineData,
          slotWrites, lastSlot, roleArg, roleResult>>

constVars == <<session, role, roleArg, roleResult>>
boundVars == <<opsLeft, deletesLeft>>
cacheVars == <<accounts, transactions>>
uiVars == <<transactionForm, editingId, isAddingTransaction, isAddingAccount, accountForm>>
projectVars == <<dbProjects, nextProjectId, projects, projectForm, isAddingProject>>
formPageVars == <<dbRows, dbNotifications, nextRowId, isModalOpen, pageEditingId, pageLoading,
                  globalError, lastSave>>
feedVars == <<dbPoll, posts, voteAttempts, votesCast, lastVote>>
slotVars == <<dbRoles, schedules, declineModalOpen, declineData, slotWrites, lastSlot>>
pageVars == <<formPageVars, feedVars, slotVars>>
roleVars == <<roleArg, roleResult>>
ledgerVars == <<roleArg, roleResult, session, role, dbAccounts, dbTransactions, nextId, opsLeft, deletesLeft,
                accounts, transactions, transactionForm, editingId, isAddingTransaction,
                isAddingAccount, accountForm, loading, last, prevAccounts, prevTransactions,
                awaitingApproval, probe, dbProjects, nextProjectId, projects, projectForm,
                isAddingProject>>

\* The loading flag once a handler has returned: setLoading(true) is followed by
\* the finally arm, a return before it leaves the flag as it was.
loadingAfter(before, reached) == IF reached THEN FALSE ELSE before

\* --------------------------------------------------------------- helpers
\* rows.find(r => r.id === id); Array.find gives undefined when nothing matches.
has(rows, id) == \E r \in rows : r.id = id
find(rows, id) == CHOOSE r \in rows : r.id = id

balanceOf(rows, id) == find(rows, id).balance

\* update({balance: b}).eq('id', id) on financial_accounts
updateBalance(rows, id, b) ==
  {IF r.id = id THEN [r EXCEPT !.balance = b] ELSE r : r \in rows}

\* update(payload).eq('id', id) on financial_transactions: the other rows are
\* left alone, and no matching row is not an error.
updateTransaction(rows, id, payload) ==
  {IF r.id = id THEN [payload EXCEPT !.id = id] ELSE r : r \in rows}

\* update({status: st}).eq('id', id) on financial_transactions
updateStatus(rows, id, st) ==
  {IF r.id = id THEN [r EXCEPT !.status = st] ELSE r : r \in rows}

\* delete().eq('id', id)
deleteRow(rows, id) == {r \in rows : r.id # id}

InRange(b) == -MaxBal <= b /\ b <= MaxBal

\* ------------------------------------------------------------ permissions
\* isCoordinator over the roles of the model, computed once.
CoordinatorRoles == {r \in Roles : isCoordinator(r)}

isAdmin(c) == role[c] \in CoordinatorRoles
isTreasurer(c) == role[c] = StrTesoureiro
isFinancial(c) == isAdmin(c) \/ isTreasurer(c) \/ role[c] = StrFinanceiro
canAdd(c) == isFinancial(c)
canEdit(c) == isAdmin(c) \/ role[c] = StrFinanceiro
\* Variant of canApprove: approval open to every financial role.
canApproveFinancial(c) == isFinancial(c)
canApprove(c) == isAdmin(c)

\* ---------------------------------------------------------------- records
\* The form after resetTransactionForm (and as useState first sets it).
resetForm ==
  [type |-> EXPENSE, value |-> <<>>, description |-> "", accountId |-> NoId,
   toAccountId |-> NoId, projectId |-> NoId, status |-> PAID]

NoTransaction ==
  [id |-> NoId, type |-> "", value |-> 0, description |-> "", accountId |-> NoId,
   toAccountId |-> NoId, projectId |-> NoId, status |-> ""]

\* Ids the backend assigns to rows of financial_projects.
ProjectIdSeq == <<"p1", "p2">>

\* The stored project before the first save of a run.  Its budget_executed is
\* whatever the table holds: the column is read by refreshData and shown, and
\* maintained outside this component.
SeedProject(executed) ==
  [id |-> ProjectIdSeq[1], name |-> "p", description |-> "", budgetPlanned |-> 1,
   budgetExecuted |-> executed]

\* The pages whose handleSave sends notifications: Tasks and Schedules.
Pages == {"tasks", "schedules"}

\* Ids the backend assigns to the rows of a page's table.
RowIdSeq == <<"r1">>

\* The users that can be assigned; currentUser is the one who saves.
Users == {"u1", "u2"}
currentUser == "u1"

\* globalError === null
NoError == [title |-> "", msg |-> ""]

\* The record of a handleSave invocation: the page, whether the form passed
\* the validation (reached), the id written, whether the primary write went
\* through, what became of the notification insert ("none" when none was
\* issued, "ok", "error" when the backend answered with an error, "throws"
\* when the call threw), whether onRefresh was called and the modal closed.
NoSave ==
  [page |-> "", reached |-> FALSE, kind |-> "", id |-> NoId, primaryOk |-> FALSE,
   notify |-> "none", refreshed |-> FALSE, closed |-> FALSE]

\* The account form as useState first sets it and handleSaveAccount resets it.
resetAccountForm == [name |-> "", type |-> "Caixa", balance |-> <<"0">>]

\* The ids of the options of the poll of the one post of the feed.
PollOptions == {"o1", "o2"}

\* The record of a handleVote invocation: the session, the option clicked,
\* whether the update was accepted, and poll_options before the invocation.
NoVote == [c |-> 0, optionId |-> "", ok |-> FALSE, before |-> [o \in PollOptions |-> 0]]

\* The positions of the role slots of the one schedule, and their roleName.
RoleIndexes == {1, 2}
RoleNameSeq == <<"Leitor", "Fotos">>

\* currentUser.id of session c.
userIdOf(c) == IF c = 1 THEN "u1" ELSE "u2"

\* A slot nobody is assigned to.  "" stands for null and undefined.
VacantSlot(i) ==
  [roleName |-> RoleNameSeq[i], assignedUserId |-> "", status |-> "", justification |-> ""]

\* The record of an invocation that updates the roles: the handler, the
\* session, the index, whether the update was accepted, and the stored roles
\* before it.
NoSlotOp ==
  [op |-> "none", c |-> 0, idx |-> 0, ok |-> FALSE,
   before |-> [i \in RoleIndexes |-> VacantSlot(i)]]

\* The project form as useState first sets it and handleSaveProject resets it.
resetProjectForm == [name |-> "", description |-> "", budgetPlanned |-> <<"0">>]

\* The record of a handler invocation: which handler, by which session, which
\* required fields of the form were empty, whether the session's accounts
\* equalled the stored ones (fresh), what the confirm dialog and the backend
\* answered (txOk: the write to financial_transactions went through, balOk:
\* so would a balance write after it), what was alerted and whether
\* setLoading(true) was reached.  An invocation that wrote to financial_transactions also records
\* the row (arg: the payload of a save under its id, the row passed to delete
\* or approve) and the status the form held.
NoOp ==
  [op |-> "none", c |-> 0, kind |-> "", id |-> NoId, arg |-> NoTransaction,
   empty |-> {}, formStatus |-> "", fresh |-> FALSE, confirmed |-> FALSE,
   txOk |-> FALSE, balOk |-> FALSE, alert |-> "", loading |-> FALSE]

NoProbe == [id |-> NoId, accountId |-> NoId, balance |-> 0]

\* The row that is stored before the first insert of a run.  The form has no
\* control for the status, the destination account or the type Transferencia,
\* so rows that carry them come from outside the form.
SeedRow(ty, st) ==
  [id |-> TxIdSeq[1], type |-> ty, value |-> 1, description |-> "d",
   accountId |-> Caixa, toAccountId |-> IF ty = TRANSFER THEN Banco ELSE NoId,
   projectId |-> NoId, status |-> st]

SeedRows ==
  {SeedRow(TRANSFER, PAID), SeedRow(TRANSFER, PLANNED),
   SeedRow(EXPENSE, CANCELLED), SeedRow(EXPENSE, PENDING_APPROVAL)}

\* Balance of Caixa that goes with a seed row: a paid row has been applied.
SeedBalance(seed) ==
  IF seed.status # PAID THEN 0
  ELSE IF seed.type = INCOME THEN seed.value
  ELSE IF seed.type = EXPENSE THEN 0 - seed.value
  ELSE 0

\* The finance tab is rendered after App's first refreshData has completed,
\* so each session starts with the stored rows in its props.
InitWith(sessions, roles, seeds, projs, ops, deletes) ==
  /\ session = [c \in Clients |-> c \in sessions]
  /\ role = roles
  /\ \E seed \in seeds :
       /\ dbTransactions = {seed}
       /\ dbAccounts = {[id |-> Caixa, name |-> "Caixa", type |-> "Caixa",
                         balance |-> SeedBalance(seed)],
                        [id |-> Banco, name |-> "Banco", type |-> "Banco", balance |-> 0]}
  /\ nextId = 2
  /\ opsLeft = [c \in Clients |-> ops]
  /\ deletesLeft = [c \in Clients |-> deletes]
  /\ accounts = [c \in Clients |-> IF c \in sessions THEN dbAccounts ELSE {}]
  /\ transactions = [c \in Clients |-> IF c \in sessions THEN dbTransactions ELSE {}]
  /\ transactionForm = [c \in Clients |-> resetForm]
  /\ editingId = [c \in Clients |-> NoId]
  /\ isAddingTransaction = [c \in Clients |-> FALSE]
  /\ isAddingAccount = [c \in Clients |-> FALSE]
  /\ accountForm = [c \in Clients |-> resetAccountForm]
  /\ dbPoll = [o \in PollOptions |-> 0]
  /\ posts = [c \in Clients |-> [o \in PollOptions |-> 0]]
  /\ voteAttempts = 0
  /\ votesCast = 0
  /\ lastVote = NoVote
  /\ dbRoles = [i \in RoleIndexes |-> VacantSlot(i)]
  /\ schedules = [c \in Clients |-> [i \in RoleIndexes |-> VacantSlot(i)]]
  /\ declineModalOpen = [c \in Clients |-> FALSE]
  /\ declineData = [c \in Clients |-> 0]
  /\ slotWrites = 0
  /\ lastSlot = NoSlotOp
  /\ loading = [c \in Clients |-> FALSE]
  /\ last = NoOp
  /\ prevAccounts = dbAccounts
  /\ prevTransactions = dbTransactions
  /\ awaitingApproval = {}
  /\ probe = NoProbe
  /\ dbProjects \in projs
  /\ nextProjectId = 2
  /\ projects = [c \in Clients |-> IF c \in sessions THEN dbProjects ELSE {}]
  /\ projectForm = [c \in Clients |-> resetProjectForm]
  /\ isAddingProject = [c \in Clients |-> FALSE]
  /\ dbRows = [k \in Pages |-> {}]
  /\ dbNotifications = {}
  /\ nextRowId = [k \in Pages |-> 1]
  /\ isModalOpen = [k \in Pages |-> FALSE]
  /\ pageEditingId = [k \in Pages |-> NoId]
  /\ pageLoading = [k \in Pages |-> FALSE]
  /\ globalError = [k \in Pages |-> NoError]
  /\ lastSave = NoSave
  /\ roleResult = NotCalled

\* A coordinator and a treasurer, both logged in, one write each; the
\* deletions of a session are followed in the one-session specification.
Init ==
  /\ InitWith(Clients, <<StrCoordenador, StrTesoureiro>>,
           {SeedRow(EXPENSE, PENDING_APPROVAL)}, {{}}, MaxOpsEach, 0)
  /\ roleArg = NullRole

\* A coordinator and a user with role 'Financeiro', both logged in, one write
\* each.
InitPair ==
  /\ InitWith(Clients, <<StrCoordenador, StrFinanceiro>>,
           {SeedRow(EXPENSE, PENDING_APPROVAL)}, {{}}, MaxOpsEach, 0)
  /\ roleArg = NullRole

\* The coordinator alone, with one stored project that one pending expense is
\* booked on.
InitProjects ==
  /\ InitWith({1}, <<StrCoordenador, StrTesoureiro>>,
           {[SeedRow(EXPENSE, PENDING_APPROVAL) EXCEPT !.projectId = ProjectIdSeq[1]]},
           {{SeedProject(0)}, {SeedProject(MaxBal)}}, MaxOpsEach, MaxDeletes)
  /\ roleArg = NullRole

\* The coordinator alone.
InitSolo ==
  /\ InitWith({1}, <<StrCoordenador, StrTesoureiro>>, SeedRows, {{}}, MaxOps, MaxDeletes)
  /\ roleArg = NullRole

\* A step that is no ledger handler leaves no invocation record.
NoInvocation ==
  /\ last' = NoOp
  /\ prevAccounts' = dbAccounts'
  /\ prevTransactions' = dbTransactions'

\* ---------------------------------------------------------------- refresh
\* A row of financial_transactions as refreshData maps it to a FinancialTransaction.
mapTransaction(t) ==
  [id |-> t.id, type |-> t.type, value |-> t.value, description |-> t.description,
   accountId |-> t.accountId, toAccountId |-> t.toAccountId, projectId |-> t.projectId,
   status |-> t.status]

\* A row of financial_projects as refreshData maps it to a FinancialProject.
mapProject(p) ==
  [id |-> p.id, name |-> p.name, description |-> p.description,
   budgetPlanned |-> p.budgetPlanned, budgetExecuted |-> p.budgetExecuted]

\* refreshData: select * from financial_accounts, then from financial_transactions.
refreshData(c) ==
  /\ session[c]
  /\ accounts' = [accounts EXCEPT ![c] = dbAccounts]
  /\ transactions' = [transactions EXCEPT ![c] = {mapTransaction(t) : t \in dbTransactions}]
  /\ projects' = [projects EXCEPT ![c] = {mapProject(p) : p \in dbProjects}]
  /\ UNCHANGED <<constVars, boundVars, dbAccounts, dbTransactions, nextId, uiVars, loading,
                 awaitingApproval, probe, dbProjects, nextProjectId, projectForm,
                 isAddingProject, pageVars>>
  /\ NoInvocation

\* ------------------------------------------------------------ UI actions
\* The list and its buttons can be clicked when no modal covers the page.
noModal(c) == ~isAddingTransaction[c] /\ ~isAddingAccount[c] /\ ~isAddingProject[c]

\* What a click that only sets component state leaves alone.
StoreFrame ==
  /\ UNCHANGED <<constVars, boundVars, dbAccounts, dbTransactions, nextId, cacheVars, loading,
                 awaitingApproval, probe, dbProjects, nextProjectId, projects, pageVars>>
  /\ NoInvocation

UIFrame ==
  /\ UNCHANGED <<projectForm, isAddingProject, accountForm>>
  /\ StoreFrame

\* The 'Novo Lancamento' button: onClick={() => setIsAddingTransaction(true)}
NovoLancamento(c) ==
  /\ session[c] /\ canAdd(c) /\ noModal(c)
  /\ isAddingTransaction' = [isAddingTransaction EXCEPT ![c] = TRUE]
  /\ UNCHANGED <<transactionForm, editingId, isAddingAccount>>
  /\ UIFrame

\* The X and 'Cancelar' buttons of the transaction modal:
\* setIsAddingTransaction(false); resetTransactionForm()
CancelTransaction(c) ==
  /\ session[c] /\ isAddingTransaction[c]
  /\ isAddingTransaction' = [isAddingTransaction EXCEPT ![c] = FALSE]
  /\ transactionForm' = [transactionForm EXCEPT ![c] = resetForm]
  /\ editingId' = [editingId EXCEPT ![c] = NoId]
  /\ UNCHANGED isAddingAccount
  /\ UIFrame

\* The backdrop of the transaction modal: onClick={() => setIsAddingTransaction(false)}
BackdropTransaction(c) ==
  /\ session[c] /\ isAddingTransaction[c]
  /\ isAddingTransaction' = [isAddingTransaction EXCEPT ![c] = FALSE]
  /\ UNCHANGED <<transactionForm, editingId, isAddingAccount>>
  /\ UIFrame

\* handleEditTransaction(transaction), from the edit button of a listed row.
handleEditTransaction(c, t) ==
  /\ session[c] /\ canEdit(c) /\ noModal(c)
  /\ t \in transactions[c]
  /\ transactionForm' = [transactionForm EXCEPT ![c] =
       [type |-> t.type, value |-> toString(t.value), description |-> t.description,
        accountId |-> t.accountId, toAccountId |-> t.toAccountId,
        projectId |-> t.projectId, status |-> t.status]]
  /\ editingId' = [editingId EXCEPT ![c] = t.id]
  /\ isAddingTransaction' = [isAddingTransaction EXCEPT ![c] = TRUE]
  /\ UNCHANGED isAddingAccount
  /\ UIFrame

EditTransaction(c) == \E t \in transactions[c] : handleEditTransaction(c, t)

\* The 'Nova Conta' button: onClick={() => setIsAddingAccount(true)}
NovaConta(c) ==
  /\ session[c] /\ canEdit(c) /\ noModal(c)
  /\ isAddingAccount' = [isAddingAccount EXCEPT ![c] = TRUE]
  /\ UNCHANGED <<transactionForm, editingId, isAddingTransaction>>
  /\ UIFrame

\* The X and 'Cancelar' buttons of the account modal:
\* setIsAddingAccount(false); setEditingId(null)
CancelAccount(c) ==
  /\ session[c] /\ isAddingAccount[c]
  /\ isAddingAccount' = [isAddingAccount EXCEPT ![c] = FALSE]
  /\ editingId' = [editingId EXCEPT ![c] = NoId]
  /\ UNCHANGED <<transactionForm, isAddingTransaction>>
  /\ UIFrame

\* ------------------------------------------------------------------- save
\* The form after the user has typed into the controls named in typed.fields.
typeInto(f, typed) ==
  [f EXCEPT !.type = IF "type" \in typed.fields THEN typed.type ELSE @,
            !.value = IF "value" \in typed.fields THEN typed.value ELSE @,
            !.description = IF "description" \in typed.fields THEN typed.description ELSE @,
            !.accountId = IF "accountId" \in typed.fields THEN typed.accountId ELSE @,
            !.projectId = IF "projectId" \in typed.fields THEN typed.projectId ELSE @]

\* What can be entered in the modal of session c: the project select offers
\* the projects of the session's props.
TypingsOf(c) ==
  Typings \cup
  {[Typing({"value", "description", "accountId", "projectId"}, EXPENSE, Caixa)
      EXCEPT !.projectId = p.id] : p \in projects[c]}

\* The required fields the form leaves empty.
emptyFields(f) ==
  {k \in {"description", "value", "accountId"} :
     \/ k = "description" /\ f.description = ""
     \/ k = "value" /\ f.value = <<>>
     \/ k = "accountId" /\ f.accountId = NoId}

\* Variant of formInvalid: the account is not required.
formInvalidNoAccount(f) == f.description = "" \/ f.value = <<>>

\* if (!description || !value || !accountId)
formInvalid(f) == f.description = "" \/ f.value = <<>> \/ f.accountId = NoId

\* Variant of finalStatusOf: the form's status is never overridden.
finalStatusOfForm(c, formStatus, eid) == formStatus

\* finalStatus: the form's status, forced for a treasurer's new transaction.
finalStatusOf(c, formStatus, eid) ==
  IF isTreasurer(c) /\ ~isAdmin(c) /\ eid = NoId THEN PENDING_APPROVAL ELSE formStatus

payloadOf(f, st) ==
  [id |-> NoId, type |-> f.type, value |-> Number(f.value), description |-> f.description,
   accountId |-> f.accountId, toAccountId |-> f.toAccountId, projectId |-> f.projectId,
   status |-> st]

\* Variant of adjustsOnSave: the balance branch placed after the if/else.
adjustsOnSaveAnyPaid(eid, st) == st = PAID

\* The balance branch is in the insert arm, under finalStatus === PAID.
adjustsOnSave(eid, st) == eid = NoId /\ st = PAID

\* Variant of insertBalance: the value is added whatever the type.
insertBalanceAdds(balance, type, value) == balance + value

\* newBalance of the insert path
insertBalance(balance, type, value) ==
  IF type = INCOME THEN balance + value
  ELSE IF type = EXPENSE THEN balance - value
  ELSE balance

\* Variant of accountBalance: the balance is fetched from the store.
accountBalanceRefetched(c, id) == balanceOf(dbAccounts, id)

\* Number(account.balance), account found in the accounts prop.
accountBalance(c, id) == balanceOf(accounts[c], id)

\* The accounts after the balance branch of a handler that read account id
\* from the session's props: nothing is written when find() gives undefined
\* or the update fails, and the failure goes unnoticed.
writeBalance(c, id, newBalance, balOk) ==
  IF has(accounts[c], id) /\ balOk THEN updateBalance(dbAccounts, id, newBalance)
  ELSE dbAccounts

\* Variant of afterInsert: the balance branch runs whatever the insert returned.
afterInsertUnchecked(inserted) == TRUE

\* if (error) throw error: the balance branch of the insert arm is reached
\* only when the insert returned no error.
afterInsert(inserted) == inserted

handleSaveTransaction(c, typed, txOk, balOk) ==
  LET f == typeInto(transactionForm[c], typed)
      eid == editingId[c]
      st == finalStatusOf(c, f.status, eid)
      payload == payloadOf(f, st)
      newId == IF eid # NoId THEN eid ELSE TxIdSeq[nextId]
      written == ~formInvalid(f) /\ txOk
      adjusts == ~formInvalid(f) /\ afterInsert(txOk) /\ adjustsOnSave(eid, st)
      newBalance == IF has(accounts[c], f.accountId)
                    THEN insertBalance(accountBalance(c, f.accountId), f.type, payload.value)
                    ELSE 0
      tag == [op |-> "save", c |-> c,
              kind |-> IF formInvalid(f) THEN "invalid"
                       ELSE IF eid # NoId THEN "update" ELSE "insert",
              id |-> IF written THEN newId ELSE NoId,
              arg |-> IF written THEN [payload EXCEPT !.id = newId] ELSE NoTransaction,
              empty |-> emptyFields(f),
              formStatus |-> IF written THEN f.status ELSE "",
              fresh |-> accounts[c] = dbAccounts, confirmed |-> TRUE,
              txOk |-> written, balOk |-> written /\ balOk,
              alert |-> IF formInvalid(f) THEN "Preencha os campos obrigatorios"
                        ELSE IF ~txOk THEN "Erro ao salvar transacao"
                        ELSE IF isTreasurer(c) /\ ~isAdmin(c) /\ eid = NoId
                             THEN "Lancamento enviado para aprovacao"
                        ELSE "",
              loading |-> ~formInvalid(f)]
  IN
  /\ session[c] /\ isAddingTransaction[c] /\ ~loading[c]
  /\ written => opsLeft[c] > 0
  /\ (written /\ eid = NoId) => nextId <= Len(TxIdSeq)
  /\ adjusts => InRange(newBalance)
  /\ dbTransactions' =
       IF ~written THEN dbTransactions
       ELSE IF eid # NoId THEN updateTransaction(dbTransactions, eid, payload)
       ELSE dbTransactions \cup {[payload EXCEPT !.id = newId]}
  /\ nextId' = IF written /\ eid = NoId THEN nextId + 1 ELSE nextId
  /\ dbAccounts' = IF adjusts THEN writeBalance(c, f.accountId, newBalance, balOk)
                   ELSE dbAccounts
  /\ opsLeft' = [opsLeft EXCEPT ![c] = IF written THEN @ - 1 ELSE @]
  /\ isAddingTransaction' = [isAddingTransaction EXCEPT ![c] = ~written]
  /\ transactionForm' = [transactionForm EXCEPT ![c] = IF written THEN resetForm ELSE @]
  /\ editingId' = [editingId EXCEPT ![c] = IF written THEN NoId ELSE eid]
  /\ awaitingApproval' =
       IF written /\ eid = NoId /\ isTreasurer(c) /\ ~isAdmin(c)
       THEN awaitingApproval \cup {newId} ELSE awaitingApproval
  /\ probe' =
       IF ~written THEN probe
       ELSE IF adjusts /\ balOk /\ f.type \in {INCOME, EXPENSE}
                 /\ has(accounts[c], f.accountId) /\ has(dbAccounts, f.accountId)
            THEN [id |-> newId, accountId |-> f.accountId,
                  balance |-> balanceOf(dbAccounts, f.accountId)]
       ELSE NoProbe
  /\ last' = tag
  /\ prevAccounts' = dbAccounts
  /\ prevTransactions' = dbTransactions
  /\ loading' = [loading EXCEPT ![c] = loadingAfter(@, tag.loading)]
  /\ UNCHANGED <<constVars, deletesLeft, cacheVars, isAddingAccount, accountForm, projectVars,
                 pageVars>>

\* What the backend answers to the write to financial_transactions and what it
\* answers, or would answer, to a balance write.
BackendAnswers == BOOLEAN \X BOOLEAN

SaveTransaction(c) ==
  \E typed \in TypingsOf(c) : \E ans \in BackendAnswers :
    handleSaveTransaction(c, typed, ans[1], ans[2])

\* ----------------------------------------------------------------- delete
\* Variant of deleteBalance: the signs of the insert path.
deleteBalanceNotReversed(balance, type, value) ==
  IF type = INCOME THEN balance + value
  ELSE IF type = EXPENSE THEN balance - value
  ELSE balance

\* newBalance of the delete path
deleteBalance(balance, type, value) ==
  IF type = INCOME THEN balance - value
  ELSE IF type = EXPENSE THEN balance + value
  ELSE balance

\* Variant of reversesOnDelete: the error of the delete call is not thrown.
reversesOnDeleteUnchecked(deleted, st) == st = PAID

\* if (error) throw error, then if (transaction.status === PAID)
reversesOnDelete(deleted, st) == deleted /\ st = PAID

\* handleDeleteTransaction(transaction), from the delete button of a listed row.
\* Variant of reversedAccount: a transfer is reversed on its destination.
reversedAccountOfTransfer(t) ==
  IF t.type = TRANSFER /\ t.toAccountId # NoId THEN t.toAccountId ELSE t.accountId

\* accounts.find(a => a.id === transaction.accountId): the one account whose
\* balance the delete writes.
reversedAccount(t) == t.accountId

handleDeleteTransaction(c, t, confirmed, txOk, balOk) ==
  LET written == confirmed /\ txOk
      adjusts == confirmed /\ reversesOnDelete(txOk, t.status)
      acct == reversedAccount(t)
      newBalance == IF has(accounts[c], acct)
                    THEN deleteBalance(accountBalance(c, acct), t.type, t.value)
                    ELSE 0
      tag == [op |-> "delete", c |-> c, kind |-> "",
              id |-> IF written THEN t.id ELSE NoId,
              arg |-> IF written THEN t ELSE NoTransaction,
              empty |-> {}, formStatus |-> "",
              fresh |-> accounts[c] = dbAccounts, confirmed |-> confirmed,
              txOk |-> written, balOk |-> written /\ balOk,
              alert |-> IF confirmed /\ ~txOk THEN "Erro ao excluir lancamento" ELSE "",
              loading |-> confirmed]
  IN
  /\ session[c] /\ canEdit(c) /\ noModal(c)
  /\ t \in transactions[c]
  /\ written => deletesLeft[c] > 0
  /\ adjusts => InRange(newBalance)
  /\ dbTransactions' = IF written THEN deleteRow(dbTransactions, t.id) ELSE dbTransactions
  /\ dbAccounts' = IF adjusts THEN writeBalance(c, acct, newBalance, balOk)
                   ELSE dbAccounts
  /\ deletesLeft' = [deletesLeft EXCEPT ![c] = IF written THEN @ - 1 ELSE @]
  /\ probe' = IF written /\ t.id # probe.id THEN NoProbe ELSE probe
  /\ last' = tag
  /\ prevAccounts' = dbAccounts
  /\ prevTransactions' = dbTransactions
  /\ loading' = [loading EXCEPT ![c] = loadingAfter(@, tag.loading)]
  /\ UNCHANGED <<constVars, opsLeft, nextId, cacheVars, uiVars, awaitingApproval,
                 projectVars, pageVars>>

DeleteTransaction(c) ==
  \E t \in transactions[c] : \E confirmed \in BOOLEAN :
    \E ans \in IF confirmed THEN BackendAnswers ELSE {<<FALSE, FALSE>>} :
      handleDeleteTransaction(c, t, confirmed, ans[1], ans[2])

\* ---------------------------------------------------------------- approve
\* Variant of approveBalance: an expense is not subtracted.
approveBalanceIncomeOnly(balance, type, value) ==
  IF type = INCOME THEN balance + value ELSE balance

\* newBalance of the approve path
approveBalance(balance, type, value) ==
  IF type = INCOME THEN balance + value
  ELSE IF type = EXPENSE THEN balance - value
  ELSE balance

\* Variant of adjustsOnApprove: the error of the status update is not thrown.
adjustsOnApproveUnchecked(updated) == TRUE

\* if (error) throw error, then the balance branch
adjustsOnApprove(updated) == updated

\* handleApproveTransaction(transaction).  The list offers the button on rows
\* it shows as pending; the handler tests canApprove itself, and it is run
\* here for every session so that the test decides.
handleApproveTransaction(c, t, confirmed, txOk, balOk) ==
  LET written == canApprove(c) /\ confirmed /\ txOk
      adjusts == canApprove(c) /\ confirmed /\ adjustsOnApprove(txOk)
      newBalance == IF has(accounts[c], t.accountId)
                    THEN approveBalance(accountBalance(c, t.accountId), t.type, t.value)
                    ELSE 0
      tag == [op |-> "approve", c |-> c, kind |-> "",
              id |-> IF written THEN t.id ELSE NoId,
              arg |-> IF written THEN t ELSE NoTransaction,
              empty |-> {}, formStatus |-> "",
              fresh |-> accounts[c] = dbAccounts, confirmed |-> canApprove(c) /\ confirmed,
              txOk |-> written, balOk |-> written /\ balOk,
              alert |-> IF canApprove(c) /\ confirmed /\ ~txOk
                        THEN "Erro ao aprovar transacao" ELSE "",
              loading |-> canApprove(c) /\ confirmed]
  IN
  /\ session[c] /\ noModal(c)
  /\ t \in transactions[c]
  /\ t.status = PENDING_APPROVAL
  /\ written => opsLeft[c] > 0
  /\ adjusts => InRange(newBalance)
  /\ dbTransactions' = IF written THEN updateStatus(dbTransactions, t.id, PAID)
                       ELSE dbTransactions
  /\ dbAccounts' = IF adjusts THEN writeBalance(c, t.accountId, newBalance, balOk)
                   ELSE dbAccounts
  /\ opsLeft' = [opsLeft EXCEPT ![c] = IF written THEN @ - 1 ELSE @]
  /\ awaitingApproval' = IF written THEN awaitingApproval \ {t.id} ELSE awaitingApproval
  /\ probe' = IF written THEN NoProbe ELSE probe
  /\ last' = tag
  /\ prevAccounts' = dbAccounts
  /\ prevTransactions' = dbTransactions
  /\ loading' = [loading EXCEPT ![c] = loadingAfter(@, tag.loading)]
  /\ UNCHANGED <<constVars, deletesLeft, nextId, cacheVars, uiVars, projectVars, pageVars>>

ApproveTransaction(c) ==
  \E t \in transactions[c] : \E confirmed \in BOOLEAN :
    \E ans \in IF confirmed THEN BackendAnswers ELSE {<<FALSE, FALSE>>} :
      handleApproveTransaction(c, t, confirmed, ans[1], ans[2])

\* --------------------------------------------------------------- accounts
\* Number.prototype.toString of a balance, which may be negative.
balanceToString(n) == IF n < 0 THEN <<"-">> \o toString(0 - n) ELSE toString(n)

\* Number(s) || 0 of the balance input.
balanceOfInput(s) ==
  IF s # <<>> /\ Head(s) = "-" THEN 0 - Number(Tail(s)) ELSE Number(s)

\* The id the backend assigns to an inserted row of financial_accounts.
NewAccountId == "Conta3"

\* What the user does with the inputs of the account modal before the click
\* on save: nothing, or a new name.
AccountTypings ==
  {[fields |-> {}, name |-> ""], [fields |-> {"name"}, name |-> "Reserva"]}

typeIntoAccount(f, typed) ==
  [f EXCEPT !.name = IF "name" \in typed.fields THEN typed.name ELSE @]

\* The backdrop of the account modal: onClick={() => setIsAddingAccount(false)}
BackdropAccount(c) ==
  /\ session[c] /\ isAddingAccount[c]
  /\ isAddingAccount' = [isAddingAccount EXCEPT ![c] = FALSE]
  /\ UNCHANGED <<transactionForm, editingId, isAddingTransaction>>
  /\ UIFrame

\* handleEditAccount(account), from the edit button of a listed account.
handleEditAccount(c, a) ==
  /\ session[c] /\ canEdit(c) /\ noModal(c)
  /\ a \in accounts[c]
  /\ accountForm' = [accountForm EXCEPT ![c] =
       [name |-> a.name, type |-> a.type, balance |-> balanceToString(a.balance)]]
  /\ editingId' = [editingId EXCEPT ![c] = a.id]
  /\ isAddingAccount' = [isAddingAccount EXCEPT ![c] = TRUE]
  /\ UNCHANGED <<transactionForm, isAddingTransaction, projectForm, isAddingProject>>
  /\ StoreFrame

EditAccount(c) == \E a \in accounts[c] : handleEditAccount(c, a)

\* The payload of handleSaveAccount.
accountPayloadOf(f) ==
  [name |-> f.name, type |-> f.type, balance |-> balanceOfInput(f.balance)]

\* update(payload).eq('id', id) on financial_accounts: name, type and balance.
updateAccount(rows, id, payload) ==
  {IF r.id = id
   THEN [r EXCEPT !.name = payload.name, !.type = payload.type, !.balance = payload.balance]
   ELSE r : r \in rows}

handleSaveAccount(c, typed, ok) ==
  LET f == typeIntoAccount(accountForm[c], typed)
      eid == editingId[c]
      payload == accountPayloadOf(f)
      invalid == f.name = ""
      written == ~invalid /\ ok
      newId == IF eid # NoId THEN eid ELSE NewAccountId
      tag == [NoOp EXCEPT !.op = "saveAccount", !.c = c,
                          !.kind = IF invalid THEN "invalid"
                                   ELSE IF eid # NoId THEN "update" ELSE "insert",
                          !.id = IF written THEN newId ELSE NoId,
                          !.empty = IF "name" \in typed.fields THEN {} ELSE {"name"},
                          !.fresh = accounts[c] = dbAccounts,
                          !.confirmed = TRUE, !.txOk = written,
                          !.alert = IF invalid THEN "Por favor, informe o nome da conta"
                                    ELSE IF ~ok THEN "Erro ao salvar conta" ELSE "",
                          !.loading = ~invalid]
  IN
  /\ session[c] /\ isAddingAccount[c] /\ ~loading[c]
  /\ (written /\ eid = NoId) => ~has(dbAccounts, NewAccountId)
  /\ dbAccounts' =
       IF ~written THEN dbAccounts
       ELSE IF eid # NoId THEN updateAccount(dbAccounts, eid, payload)
       ELSE dbAccounts \cup {[id |-> newId, name |-> payload.name, type |-> payload.type,
                               balance |-> payload.balance]}
  /\ accountForm' = [accountForm EXCEPT ![c] = IF written THEN resetAccountForm ELSE @]
  /\ isAddingAccount' = [isAddingAccount EXCEPT ![c] = ~written]
  /\ editingId' = [editingId EXCEPT ![c] = IF written THEN NoId ELSE eid]
  /\ loading' = [loading EXCEPT ![c] = loadingAfter(@, tag.loading)]
  /\ last' = tag
  /\ prevAccounts' = dbAccounts
  /\ prevTransactions' = dbTransactions
  /\ UNCHANGED <<constVars, boundVars, dbTransactions, nextId, cacheVars, transactionForm,
                 isAddingTransaction, awaitingApproval, probe, projectVars, pageVars>>

SaveAccount(c) ==
  \E typed \in AccountTypings : \E ok \in BOOLEAN : handleSaveAccount(c, typed, ok)

\* --------------------------------------------------------------- projects
\* What the user does with the inputs of the project modal before the click
\* on save.
ProjectTypings ==
  {[fields |-> {}, name |-> "", budgetPlanned |-> <<>>],
   [fields |-> {"name", "budgetPlanned"}, name |-> "n", budgetPlanned |-> <<"2">>]}

typeIntoProject(f, typed) ==
  [f EXCEPT !.name = IF "name" \in typed.fields THEN typed.name ELSE @,
            !.budgetPlanned = IF "budgetPlanned" \in typed.fields
                              THEN typed.budgetPlanned ELSE @]

\* The 'Novo Projeto' button: onClick={() => setIsAddingProject(true)}
NovoProjeto(c) ==
  /\ session[c] /\ canEdit(c) /\ noModal(c)
  /\ isAddingProject' = [isAddingProject EXCEPT ![c] = TRUE]
  /\ UNCHANGED <<uiVars, projectForm>>
  /\ StoreFrame

\* The X and 'Cancelar' buttons of the project modal:
\* setIsAddingProject(false); setEditingId(null)
CancelProject(c) ==
  /\ session[c] /\ isAddingProject[c]
  /\ isAddingProject' = [isAddingProject EXCEPT ![c] = FALSE]
  /\ editingId' = [editingId EXCEPT ![c] = NoId]
  /\ UNCHANGED <<transactionForm, isAddingTransaction, isAddingAccount, accountForm,
                 projectForm>>
  /\ StoreFrame

\* The backdrop of the project modal: onClick={() => setIsAddingProject(false)}
BackdropProject(c) ==
  /\ session[c] /\ isAddingProject[c]
  /\ isAddingProject' = [isAddingProject EXCEPT ![c] = FALSE]
  /\ UNCHANGED <<uiVars, projectForm>>
  /\ StoreFrame

\* handleEditProject(project), from the edit button of a listed project.
handleEditProject(c, p) ==
  /\ session[c] /\ canEdit(c) /\ noModal(c)
  /\ p \in projects[c]
  /\ projectForm' = [projectForm EXCEPT ![c] =
       [name |-> p.name, description |-> p.description,
        budgetPlanned |-> toString(p.budgetPlanned)]]
  /\ editingId' = [editingId EXCEPT ![c] = p.id]
  /\ isAddingProject' = [isAddingProject EXCEPT ![c] = TRUE]
  /\ UNCHANGED <<transactionForm, isAddingTransaction, isAddingAccount, accountForm>>
  /\ StoreFrame

EditProject(c) == \E p \in projects[c] : handleEditProject(c, p)

\* The payload of handleSaveProject; Number(budgetPlanned) || 0.
projectPayloadOf(f) ==
  [name |-> f.name, description |-> f.description,
   budgetPlanned |-> Number(f.budgetPlanned)]

\* Variant of insertedProject: the executed budget starts at the planned one.
insertedProjectExecutedPlanned(payload, id) ==
  [id |-> id, name |-> payload.name, description |-> payload.description,
   budgetPlanned |-> payload.budgetPlanned, budgetExecuted |-> payload.budgetPlanned]

\* insert([{ ...payload, budget_executed: 0 }])
insertedProject(payload, id) ==
  [id |-> id, name |-> payload.name, description |-> payload.description,
   budgetPlanned |-> payload.budgetPlanned, budgetExecuted |-> 0]

\* update(payload).eq('id', id) on financial_projects: the columns of the
\* payload are written, the others kept.
updateProject(rows, id, payload) ==
  {IF r.id = id
   THEN [r EXCEPT !.name = payload.name, !.description = payload.description,
                  !.budgetPlanned = payload.budgetPlanned]
   ELSE r : r \in rows}

handleSaveProject(c, typed, ok) ==
  LET f == typeIntoProject(projectForm[c], typed)
      eid == editingId[c]
      payload == projectPayloadOf(f)
      invalid == f.name = ""
      written == ~invalid /\ ok
      newId == IF eid # NoId THEN eid ELSE ProjectIdSeq[nextProjectId]
      tag == [NoOp EXCEPT !.op = "saveProject", !.c = c,
                          !.kind = IF invalid THEN "invalid"
                                   ELSE IF eid # NoId THEN "update" ELSE "insert",
                          !.id = IF written THEN newId ELSE NoId,
                          !.confirmed = TRUE, !.txOk = written,
                          !.alert = IF invalid THEN "Por favor, informe o nome do projeto"
                                    ELSE IF ~ok THEN "Erro ao salvar projeto" ELSE "",
                          !.loading = ~invalid]
  IN
  /\ session[c] /\ isAddingProject[c] /\ ~loading[c]
  /\ (written /\ eid = NoId) => nextProjectId <= Len(ProjectIdSeq)
  /\ dbProjects' =
       IF ~written THEN dbProjects
       ELSE IF eid # NoId THEN updateProject(dbProjects, eid, payload)
       ELSE dbProjects \cup {insertedProject(payload, newId)}
  /\ nextProjectId' = IF written /\ eid = NoId THEN nextProjectId + 1 ELSE nextProjectId
  /\ projectForm' = [projectForm EXCEPT ![c] = IF written THEN resetProjectForm ELSE @]
  /\ isAddingProject' = [isAddingProject EXCEPT ![c] = ~written]
  /\ editingId' = [editingId EXCEPT ![c] = IF written THEN NoId ELSE eid]
  /\ loading' = [loading EXCEPT ![c] = loadingAfter(@, tag.loading)]
  /\ last' = tag
  /\ prevAccounts' = dbAccounts
  /\ prevTransactions' = dbTransactions
  /\ UNCHANGED <<constVars, boundVars, dbAccounts, dbTransactions, nextId, cacheVars,
                 transactionForm, isAddingTransaction, isAddingAccount, accountForm,
                 awaitingApproval,
                 probe, projects, pageVars>>

SaveProject(c) ==
  \E typed \in ProjectTypings : \E ok \in BOOLEAN : handleSaveProject(c, typed, ok)

\* ---------------------------------------------------- tasks and schedules
\* What the user enters in the modal of a page before the click on save: the
\* title, the date (schedules) and the users assigned (for a schedule, those
\* of the assignment rows that name a role).
PageTypings ==
  {[title |-> ti, date |-> d, assigned |-> as] :
     ti \in {"", "t"}, d \in {"2026-01-01"}, as \in {{}, {"u1"}, {"u1", "u2"}}}
  \cup {[title |-> "t", date |-> "", assigned |-> {"u2"}]}

PageFrame == UNCHANGED <<ledgerVars, feedVars, slotVars>>

\* handleOpenModal(): setGlobalError(null); setEditingId(null); setIsModalOpen(true)
openNew(k) ==
  /\ ~isModalOpen[k]
  /\ globalError' = [globalError EXCEPT ![k] = NoError]
  /\ pageEditingId' = [pageEditingId EXCEPT ![k] = NoId]
  /\ isModalOpen' = [isModalOpen EXCEPT ![k] = TRUE]
  /\ lastSave' = NoSave
  /\ UNCHANGED <<dbRows, dbNotifications, nextRowId, pageLoading>>
  /\ PageFrame

\* handleOpenModal(row): setGlobalError(null); setEditingId(row.id); setIsModalOpen(true)
openEdit(k) ==
  /\ ~isModalOpen[k]
  /\ \E r \in dbRows[k] : pageEditingId' = [pageEditingId EXCEPT ![k] = r.id]
  /\ globalError' = [globalError EXCEPT ![k] = NoError]
  /\ isModalOpen' = [isModalOpen EXCEPT ![k] = TRUE]
  /\ lastSave' = NoSave
  /\ UNCHANGED <<dbRows, dbNotifications, nextRowId, pageLoading>>
  /\ PageFrame

\* The X and 'Cancelar' buttons of the modal: setIsModalOpen(false)
closeModal(k) ==
  /\ isModalOpen[k]
  /\ isModalOpen' = [isModalOpen EXCEPT ![k] = FALSE]
  /\ lastSave' = NoSave
  /\ UNCHANGED <<dbRows, dbNotifications, nextRowId, pageEditingId, pageLoading, globalError>>
  /\ PageFrame

\* The X of the error banner: setGlobalError(null)
dismissError(k) ==
  /\ globalError[k] # NoError
  /\ globalError' = [globalError EXCEPT ![k] = NoError]
  /\ lastSave' = NoSave
  /\ UNCHANGED <<dbRows, dbNotifications, nextRowId, isModalOpen, pageEditingId, pageLoading>>
  /\ PageFrame

\* Tasks: if (!formData.title) return; Schedules: if (!formData.title || !formData.date) return
pageFormInvalid(k, f) ==
  IF k = "tasks" THEN f.title = "" ELSE f.title = "" \/ f.date = ""

\* The users handleSave notifies: the assigned ones except currentUser.
usersToNotify(f) == {u \in f.assigned : u # currentUser}

\* The notification rows of a save.
notificationsToInsert(k, f, eid, finalId) ==
  {[user_id |-> u,
    type |-> IF k = "tasks" THEN "task_assigned" ELSE "schedule_update",
    title |-> IF k = "schedules" THEN "Escala Atualizada"
              ELSE IF eid # NoId THEN "Tarefa Atualizada" ELSE "Nova Tarefa Atribuida",
    related_id |-> finalId] : u \in usersToNotify(f)}

\* Variant of notifyInterrupts: the notification block without its own
\* try/catch, a throw reaches the catch of handleSave.
notifyInterruptsOnThrow(outcome) == outcome = "throws"

\* The notification block has its own try/catch and reads no error: whatever
\* becomes of the insert, handleSave goes on.
notifyInterrupts(outcome) == FALSE

\* update(payload).eq('id', id) / insert([payload]).select().single()
saveRow(rows, id, f) ==
  {r \in rows : r.id # id}
  \cup (IF \E r \in rows : r.id = id THEN {[id |-> id, title |-> f.title, assigned |-> f.assigned]}
        ELSE {})

handleSave(k, f, primaryOk, answer) ==
  LET eid == pageEditingId[k]
      invalid == pageFormInvalid(k, f)
      written == ~invalid /\ primaryOk
      finalId == IF eid # NoId THEN eid ELSE RowIdSeq[nextRowId[k]]
      rows == notificationsToInsert(k, f, eid, finalId)
      notify == IF written /\ rows # {} THEN answer ELSE "none"
      done == written /\ ~notifyInterrupts(notify)
  IN
  /\ isModalOpen[k] /\ ~pageLoading[k]
  /\ (written /\ eid = NoId) => nextRowId[k] <= Len(RowIdSeq)
  /\ dbRows' = [dbRows EXCEPT ![k] =
       IF ~written THEN @
       ELSE IF eid # NoId THEN saveRow(@, eid, f)
       ELSE @ \cup {[id |-> finalId, title |-> f.title, assigned |-> f.assigned]}]
  /\ nextRowId' = [nextRowId EXCEPT ![k] = IF written /\ eid = NoId THEN @ + 1 ELSE @]
  /\ dbNotifications' = IF notify = "ok" THEN dbNotifications \cup rows ELSE dbNotifications
  /\ globalError' = [globalError EXCEPT ![k] =
       IF invalid THEN @
       ELSE IF done THEN NoError
       ELSE [title |-> "Erro ao salvar", msg |-> "error.message"]]
  /\ isModalOpen' = [isModalOpen EXCEPT ![k] = ~done]
  /\ pageLoading' = [pageLoading EXCEPT ![k] = loadingAfter(@, ~invalid)]
  /\ lastSave' = [page |-> k, reached |-> ~invalid,
                  kind |-> IF invalid THEN "invalid"
                           ELSE IF eid # NoId THEN "update" ELSE "insert",
                  id |-> IF written THEN finalId ELSE NoId,
                  primaryOk |-> written, notify |-> notify,
                  refreshed |-> done, closed |-> done]
  /\ UNCHANGED pageEditingId
  /\ PageFrame

NotifyAnswers == {"ok", "error", "throws"}

TasksHandleSave ==
  \E f \in PageTypings : \E primaryOk \in BOOLEAN : \E answer \in NotifyAnswers :
    handleSave("tasks", f, primaryOk, answer)

SchedulesHandleSave ==
  \E f \in PageTypings : \E primaryOk \in BOOLEAN : \E answer \in NotifyAnswers :
    handleSave("schedules", f, primaryOk, answer)

\* ------------------------------------------------------------------- feed
FeedFrame == UNCHANGED <<ledgerVars, formPageVars, slotVars>>

\* refreshData of App, as far as the post goes: setPosts from the stored rows.
\* It runs after onRefresh() and on every realtime event of the posts table.
refreshPosts(c) ==
  /\ session[c]
  /\ posts[c] # dbPoll
  /\ posts' = [posts EXCEPT ![c] = dbPoll]
  /\ lastVote' = NoVote
  /\ UNCHANGED <<dbPoll, voteAttempts, votesCast>>
  /\ FeedFrame

\* post.pollOptions.map(opt => opt.id === optionId ? {...opt, votes: opt.votes + 1} : opt)
newOptions(options, optionId) ==
  [o \in PollOptions |-> IF o = optionId THEN options[o] + 1 ELSE options[o]]

\* PostCard.handleVote(optionId).  voteLoading is true only between the click
\* and the finally arm, so the guard on it passes at every click.
handleVote(c, optionId, ok) ==
  /\ session[c]
  /\ voteAttempts < MaxVotes
  /\ voteAttempts' = voteAttempts + 1
  /\ dbPoll' = IF ok THEN newOptions(posts[c], optionId) ELSE dbPoll
  /\ votesCast' = IF ok THEN votesCast + 1 ELSE votesCast
  /\ lastVote' = [c |-> c, optionId |-> optionId, ok |-> ok, before |-> dbPoll]
  /\ UNCHANGED posts
  /\ FeedFrame

Vote(c) == \E optionId \in PollOptions : \E ok \in BOOLEAN : handleVote(c, optionId, ok)

\* ------------------------------------------------------------ role slots
SlotFrame == UNCHANGED <<ledgerVars, formPageVars, feedVars>>

\* status || 'pending'
statusOrPending(st) == IF st = "" THEN "pending" ELSE st

\* refreshData of App, as far as the schedule goes.  It runs after onRefresh()
\* and on every realtime event of the schedules table.
refreshSchedules(c) ==
  /\ session[c]
  /\ schedules[c] # dbRoles
  /\ schedules' = [schedules EXCEPT ![c] = dbRoles]
  /\ lastSlot' = NoSlotOp
  /\ UNCHANGED <<dbRoles, declineModalOpen, declineData, slotWrites>>
  /\ SlotFrame

\* An update({roles: newRoles}) by session c from handler op.
updateRoles(op, c, idx, newRoles, ok) ==
  /\ slotWrites < MaxSlotWrites
  /\ slotWrites' = slotWrites + 1
  /\ dbRoles' = IF ok THEN newRoles ELSE dbRoles
  /\ lastSlot' = [op |-> op, c |-> c, idx |-> idx, ok |-> ok, before |-> dbRoles]

\* newRolesStructure of handleSave from the assignments of the form, whose
\* role names are those of the slots.  null === '' is false, so a vacant
\* original never matches.
newRolesStructure(assignments, original) ==
  [i \in RoleIndexes |->
     LET a == assignments[i]
         matches == /\ original[i].roleName = RoleNameSeq[i]
                    /\ a # "" /\ original[i].assignedUserId = a
     IN  [roleName |-> RoleNameSeq[i],
          assignedUserId |-> a,
          status |-> IF a # ""
                     THEN (IF matches THEN statusOrPending(original[i].status) ELSE "pending")
                     ELSE "",
          justification |-> IF matches THEN original[i].justification ELSE ""]]

\* handleSave of Schedules on the edited schedule, as far as its roles go.
saveRoles(c) ==
  /\ session[c] /\ schedulesIsAdmin(RoleOf(role[c]))
  /\ \E assignments \in [RoleIndexes -> {""} \cup Users] : \E ok \in BOOLEAN :
       updateRoles("save", c, 0, newRolesStructure(assignments, schedules[c]), ok)
  /\ UNCHANGED <<schedules, declineModalOpen, declineData>>
  /\ SlotFrame

\* newRoles of handleToggleRole.
toggledRoles(roles, idx, user) ==
  [roles EXCEPT ![idx] =
     IF @.assignedUserId = "" \/ @.status = "declined"
     THEN [@ EXCEPT !.assignedUserId = user, !.status = "pending", !.justification = ""]
     ELSE [@ EXCEPT !.assignedUserId = "", !.status = "", !.justification = ""]]

\* handleToggleRole(schedule, roleIndex), from the button 'Assumir Funcao'.
handleToggleRole(c, idx, ok) ==
  LET slot == schedules[c][idx] IN
  /\ session[c]
  /\ (slot.assignedUserId = "" \/ statusOrPending(slot.status) = "declined")
  /\ slot.assignedUserId # userIdOf(c)
  /\ updateRoles("toggle", c, idx, toggledRoles(schedules[c], idx, userIdOf(c)), ok)
  /\ UNCHANGED <<schedules, declineModalOpen, declineData>>
  /\ SlotFrame

ToggleRole(c) == \E idx \in RoleIndexes : \E ok \in BOOLEAN : handleToggleRole(c, idx, ok)

\* handleConfirmPresence(schedule, roleIndex), from the button 'Confirmar'.
handleConfirmPresence(c, idx, ok) ==
  LET slot == schedules[c][idx] IN
  /\ session[c]
  /\ slot.assignedUserId = userIdOf(c)
  /\ statusOrPending(slot.status) \notin {"declined", "confirmed"}
  /\ updateRoles("confirm", c, idx, [schedules[c] EXCEPT ![idx].status = "confirmed"], ok)
  /\ UNCHANGED <<schedules, declineModalOpen, declineData>>
  /\ SlotFrame

ConfirmPresence(c) ==
  \E idx \in RoleIndexes : \E ok \in BOOLEAN : handleConfirmPresence(c, idx, ok)

\* handleOpenDeclineModal(scheduleId, roleIndex), from the button 'Recusar'.
handleOpenDeclineModal(c, idx) ==
  LET slot == schedules[c][idx] IN
  /\ session[c] /\ ~declineModalOpen[c]
  /\ slot.assignedUserId = userIdOf(c)
  /\ statusOrPending(slot.status) # "declined"
  /\ declineData' = [declineData EXCEPT ![c] = idx]
  /\ declineModalOpen' = [declineModalOpen EXCEPT ![c] = TRUE]
  /\ lastSlot' = NoSlotOp
  /\ UNCHANGED <<dbRoles, schedules, slotWrites>>
  /\ SlotFrame

OpenDeclineModal(c) == \E idx \in RoleIndexes : handleOpenDeclineModal(c, idx)

\* The X and 'Cancelar' buttons of the decline modal.
closeDeclineModal(c) ==
  /\ session[c] /\ declineModalOpen[c]
  /\ declineModalOpen' = [declineModalOpen EXCEPT ![c] = FALSE]
  /\ lastSlot' = NoSlotOp
  /\ UNCHANGED <<dbRoles, schedules, declineData, slotWrites>>
  /\ SlotFrame

\* newRoles of handleSubmitDecline, with the justification typed.
declinedRoles(roles, idx) ==
  [roles EXCEPT ![idx] = [@ EXCEPT !.status = "declined", !.justification = "motivo"]]

\* handleSubmitDecline(), from 'Enviar Justificativa' of the decline modal.
handleSubmitDecline(c, ok) ==
  /\ session[c] /\ declineModalOpen[c] /\ declineData[c] # 0
  /\ updateRoles("decline", c, declineData[c], declinedRoles(schedules[c], declineData[c]), ok)
  /\ declineModalOpen' = [declineModalOpen EXCEPT ![c] = IF ok THEN FALSE ELSE @]
  /\ UNCHANGED <<schedules, declineData>>
  /\ SlotFrame

SubmitDecline(c) == \E ok \in BOOLEAN : handleSubmitDecline(c, ok)

\* ------------------------------------------------------------------- spec
Next ==
  \E c \in Clients :
    \/ refreshData(c)
    \/ NovoLancamento(c)
    \/ CancelTransaction(c)
    \/ BackdropTransaction(c)
    \/ EditTransaction(c)
    \/ NovaConta(c)
    \/ CancelAccount(c)
    \/ SaveTransaction(c)
    \/ DeleteTransaction(c)
    \/ ApproveTransaction(c)

Spec == Init /\ [][Next]_vars

SpecSolo == InitSolo /\ [][Next]_vars

\* The steps of two sessions that record new transactions: refresh, the
\* transaction modal and its save.
NextPair ==
  \E c \in Clients :
    \/ refreshData(c)
    \/ NovoLancamento(c)
    \/ CancelTransaction(c)
    \/ BackdropTransaction(c)
    \/ EditTransaction(c)
    \/ SaveTransaction(c)

SpecPair == InitPair /\ [][NextPair]_vars

\* The ledger and the projects of one coordinator.
NextProjects ==
  \E c \in Clients :
    \/ refreshData(c)
    \/ NovoLancamento(c)
    \/ CancelTransaction(c)
    \/ EditTransaction(c)
    \/ SaveTransaction(c)
    \/ DeleteTransaction(c)
    \/ ApproveTransaction(c)
    \/ NovoProjeto(c)
    \/ CancelProject(c)
    \/ BackdropProject(c)
    \/ EditProject(c)
    \/ SaveProject(c)

SpecProjects == InitProjects /\ [][NextProjects]_vars

\* One coordinator and one pending expense, followed through its edits and
\* approvals; nothing is deleted.
InitLifetime ==
  /\ InitWith({1}, <<StrCoordenador, StrTesoureiro>>, {SeedRow(EXPENSE, PENDING_APPROVAL)},
              {{}}, MaxOpsLifetime, 0)
  /\ roleArg = NullRole

NextLifetime ==
  \E c \in Clients :
    \/ refreshData(c)
    \/ NovoLancamento(c)
    \/ CancelTransaction(c)
    \/ BackdropTransaction(c)
    \/ EditTransaction(c)
    \/ SaveTransaction(c)
    \/ ApproveTransaction(c)

SpecLifetime == InitLifetime /\ [][NextLifetime]_vars

\* A coordinator and a user with role 'Financeiro' who approve and delete
\* what their lists show.
InitReview ==
  /\ InitWith(Clients, <<StrCoordenador, StrFinanceiro>>,
              {SeedRow(EXPENSE, PENDING_APPROVAL), SeedRow(INCOME, PENDING_APPROVAL)},
              {{}}, MaxOpsEach, MaxDeletes)
  /\ roleArg = NullRole

NextReview ==
  \E c \in Clients :
    \/ refreshData(c)
    \/ DeleteTransaction(c)
    \/ ApproveTransaction(c)

SpecReview == InitReview /\ [][NextReview]_vars

\* One coordinator who edits accounts and approves the pending expense.
InitAccounts ==
  /\ InitWith({1}, <<StrCoordenador, StrTesoureiro>>, {SeedRow(EXPENSE, PENDING_APPROVAL)},
              {{}}, MaxOpsEach, 0)
  /\ roleArg = NullRole

NextAccounts ==
  \E c \in Clients :
    \/ refreshData(c)
    \/ NovaConta(c)
    \/ CancelAccount(c)
    \/ BackdropAccount(c)
    \/ EditAccount(c)
    \/ SaveAccount(c)
    \/ ApproveTransaction(c)

SpecAccounts == InitAccounts /\ [][NextAccounts]_vars

\* The Tasks and Schedules pages of one session.
InitPages ==
  /\ InitWith({1}, <<StrCoordenador, StrTesoureiro>>, {SeedRow(EXPENSE, PENDING_APPROVAL)},
           {{}}, 0, 0)
  /\ roleArg = NullRole

NextPages ==
  \/ \E k \in Pages :
       \/ openNew(k)
       \/ openEdit(k)
       \/ closeModal(k)
       \/ dismissError(k)
  \/ TasksHandleSave
  \/ SchedulesHandleSave

SpecPages == InitPages /\ [][NextPages]_vars

\* Two sessions that vote in the poll of the same post.
InitFeed ==
  /\ InitWith(Clients, <<StrCoordenador, StrTesoureiro>>, {SeedRow(EXPENSE, PENDING_APPROVAL)},
              {{}}, 0, 0)
  /\ roleArg = NullRole

NextFeed == \E c \in Clients : refreshPosts(c) \/ Vote(c)

SpecFeed == InitFeed /\ [][NextFeed]_vars

\* A coordinator and a second user on the role slots of one schedule.
InitSlots ==
  /\ InitWith(Clients, <<StrCoordenador, StrTesoureiro>>, {SeedRow(EXPENSE, PENDING_APPROVAL)},
              {{}}, 0, 0)
  /\ roleArg = NullRole

NextSlots ==
  \E c \in Clients :
    \/ refreshSchedules(c)
    \/ saveRoles(c)
    \/ ToggleRole(c)
    \/ ConfirmPresence(c)
    \/ OpenDeclineModal(c)
    \/ closeDeclineModal(c)
    \/ SubmitDecline(c)

SpecSlots == InitSlots /\ [][NextSlots]_vars

\* isCoordinator applied to one value after another.
InitRoles ==
  /\ InitWith({1}, <<StrCoordenador, StrTesoureiro>>, {SeedRow(EXPENSE, PENDING_APPROVAL)},
              {{}}, 0, 0)
  /\ roleArg \in RoleInputs

\* isCoordinator and the inline admin checks of the components, applied to
\* the same value.
CallIsCoordinator ==
  /\ ~roleResult.called
  /\ roleResult' = [called |-> TRUE, value |-> isCoordinatorOf(roleArg),
                    feed |-> feedIsAdmin(roleArg), schedules |-> schedulesIsAdmin(roleArg),
                    inventory |-> inventoryIsAdmin(roleArg)]
  /\ UNCHANGED <<roleArg, session, role, dbAccounts, dbTransactions, nextId, opsLeft,
                 deletesLeft, accounts, transactions, uiVars, loading, last, prevAccounts,
                 prevTransactions, awaitingApproval, probe, projectVars, pageVars>>

NextRole ==
  /\ roleResult.called
  /\ roleArg' \in RoleInputs
  /\ roleResult' = NotCalled
  /\ UNCHANGED <<session, role, dbAccounts, dbTransactions, nextId, opsLeft,
                 deletesLeft, accounts, transactions, uiVars, loading, last, prevAccounts,
                 prevTransactions, awaitingApproval, probe, projectVars, pageVars>>

NextRoles == CallIsCoordinator \/ NextRole

SpecRoles == InitRoles /\ [][NextRoles]_vars

\* ---------------------------------------------------------------- claims
\* The stored balance of account id changed by d in the last invocation.
balanceChangedBy(id, d) ==
  /\ has(prevAccounts, id) /\ has(dbAccounts, id)
  /\ balanceOf(dbAccounts, id) = balanceOf(prevAccounts, id) + d

\* Every account but id has the stored balance it had before the last invocation.
othersUnchanged(id) ==
  \A a \in dbAccounts : a.id # id => a \in prevAccounts

\* The last invocation reached the backend and every call it made succeeded.
allSucceeded == last.txOk /\ last.balOk

\* C1: a paid insert (no editingId) from a session whose accounts equal the
\* stored ones, with every backend call succeeding, leaves the source account
\* at its stored balance before plus the value for an income and minus the
\* value for an expense.
C1_PaidInsertAdjustsBalance ==
  (/\ last.op = "save" /\ last.kind = "insert" /\ allSucceeded /\ last.fresh
   /\ last.arg.status = PAID /\ last.arg.type \in {INCOME, EXPENSE})
  => balanceChangedBy(last.arg.accountId,
                      IF last.arg.type = INCOME THEN last.arg.value ELSE 0 - last.arg.value)

C1_Witness ==
  /\ last.op = "save" /\ last.kind = "insert" /\ allSucceeded /\ last.fresh
  /\ last.arg.status = PAID /\ last.arg.type = EXPENSE /\ last.arg.value = 2
  /\ balanceOf(prevAccounts, last.arg.accountId) = 0
  /\ balanceOf(dbAccounts, last.arg.accountId) = 0 - 2

\* C2: a confirmed delete of a row shown as paid, from a session whose accounts
\* equal the stored ones and with every backend call succeeding, leaves the
\* source account at its stored balance before minus the value for an income
\* and plus the value for an expense; a delete of a row shown with any other
\* status leaves every stored balance unchanged.
C2_DeleteReversesPaid ==
  (last.op = "delete" /\ last.txOk) =>
    IF last.arg.status = PAID
    THEN (allSucceeded /\ last.fresh /\ last.arg.type \in {INCOME, EXPENSE}) =>
           balanceChangedBy(last.arg.accountId,
                            IF last.arg.type = INCOME THEN 0 - last.arg.value
                            ELSE last.arg.value)
    ELSE dbAccounts = prevAccounts

C2_Witness ==
  /\ last.op = "delete" /\ allSucceeded /\ last.fresh
  /\ last.arg.status = PAID /\ last.arg.type = EXPENSE /\ last.arg.value = 2
  /\ balanceOf(prevAccounts, last.arg.accountId) = 0 - 2
  /\ balanceOf(dbAccounts, last.arg.accountId) = 0

\* C3: a new transaction saved by a treasurer who is no coordinator is stored
\* with status 'Aguardando Aprovacao' whatever status the form held, and no
\* invocation on that transaction changes a stored balance before a
\* coordinator's handleApproveTransaction has run for it.
C3_TreasurerInsertPending ==
  /\ (/\ last.op = "save" /\ last.kind = "insert" /\ last.txOk
      /\ role[last.c] = StrTesoureiro /\ ~isCoordinator(role[last.c]))
     => /\ last.arg.status = PENDING_APPROVAL
        /\ last.arg \in dbTransactions
        /\ dbAccounts = prevAccounts
  /\ (last.txOk /\ last.id \in awaitingApproval) => dbAccounts = prevAccounts

C3_Witness ==
  /\ last.op = "save" /\ last.kind = "insert" /\ last.txOk
  /\ role[last.c] = StrTesoureiro /\ ~isCoordinator(role[last.c])
  /\ last.formStatus = PAID /\ last.arg.type = EXPENSE
  /\ last.arg.status = PENDING_APPROVAL /\ last.arg \in dbTransactions
  /\ last.id \in awaitingApproval

\* C4: approving a stored pending row of type t and value v, from a session
\* whose accounts equal the stored ones and with every backend call
\* succeeding, leaves the source account where a paid insert of type t and
\* value v would leave it, and leaves the row stored with status 'Pago'.
C4_ApproveLikePaidInsert ==
  (/\ last.op = "approve" /\ allSucceeded /\ last.fresh
   /\ last.arg \in prevTransactions)
  => /\ has(prevAccounts, last.arg.accountId)
     /\ balanceOf(dbAccounts, last.arg.accountId) =
          insertBalance(balanceOf(prevAccounts, last.arg.accountId),
                        last.arg.type, last.arg.value)
     /\ othersUnchanged(last.arg.accountId)
     /\ [last.arg EXCEPT !.status = PAID] \in dbTransactions

C4_Witness ==
  /\ last.op = "approve" /\ allSucceeded /\ last.fresh
  /\ last.arg \in prevTransactions
  /\ last.arg.type = EXPENSE /\ last.arg.value = 1
  /\ balanceOf(prevAccounts, last.arg.accountId) = 0
  /\ balanceOf(dbAccounts, last.arg.accountId) = 0 - 1
  /\ find(dbTransactions, last.id).status = PAID

\* C5: a paid income or expense insert followed by the deletion of the same
\* row, the deleting session having refreshed in between and no other write
\* in between, every backend call succeeding, brings the stored balance of
\* the account back to what it was before the insert.
C5_InsertThenDeleteRestores ==
  (/\ last.op = "delete" /\ allSucceeded
   /\ probe.id # NoId /\ last.id = probe.id
   /\ last.fresh /\ last.arg \in prevTransactions)
  => balanceOf(dbAccounts, probe.accountId) = probe.balance

\* C6: a save with editingId set leaves every stored balance unchanged.
C6_EditLeavesBalances ==
  (last.op = "save" /\ last.kind = "update" /\ last.txOk) => dbAccounts = prevAccounts

C6_Witness ==
  /\ last.op = "save" /\ last.kind = "update" /\ allSucceeded
  /\ last.arg.status = PAID /\ last.arg.type = INCOME /\ last.arg.value = 2
  /\ \E r \in prevTransactions : r.id = last.id /\ r.status = PAID /\ r.value = 1
  /\ last.arg \in dbTransactions
  /\ dbAccounts = prevAccounts

\* C7: when the description, the value or the account of the form is empty,
\* handleSaveTransaction alerts the validation message and does nothing else:
\* no row is inserted or updated, no balance is written, setLoading(true) is
\* not reached, and the form, editingId and the modal stay as they were.
C7_ValidationRejects ==
  [][(last'.op = "save" /\ last'.empty # {})
     => /\ last'.alert = "Preencha os campos obrigatorios"
        /\ ~last'.loading /\ ~last'.txOk
        /\ UNCHANGED <<dbTransactions, dbAccounts, nextId>>
        /\ UNCHANGED <<transactionForm, editingId, isAddingTransaction>>]_vars

C7_Witness ==
  /\ last.op = "save" /\ last.empty = {"accountId"}
  /\ last.alert = "Preencha os campos obrigatorios" /\ ~last.loading
  /\ isAddingTransaction[last.c]

\* C8: handleSaveTransaction changes a stored balance only when it inserts a
\* row whose resulting status is 'Pago' and whose type is income or expense:
\* an update, an insert with any other resulting status and a paid insert of
\* a transfer leave every stored balance unchanged.
C8_SaveWritesBalanceOnlyOnPaidInsert ==
  (last.op = "save" /\ dbAccounts # prevAccounts)
  => /\ last.kind = "insert"
     /\ last.arg.status = PAID
     /\ last.arg.type \in {INCOME, EXPENSE}

\* C9: handleApproveTransaction invoked in a session whose role is no
\* coordinator's changes no stored row and no stored balance.
C9_ApproveNeedsCoordinator ==
  (last.op = "approve" /\ ~isCoordinator(role[last.c]))
  => /\ dbTransactions = prevTransactions
     /\ dbAccounts = prevAccounts
     /\ ~last.loading

C9_Witness ==
  /\ last.op = "approve" /\ role[last.c] = StrTesoureiro
  /\ \E t \in transactions[last.c] : t.status = PENDING_APPROVAL /\ t \in dbTransactions

\* C10: a stored row with status 'Pago' that an invocation does not delete
\* still has status 'Pago' after it.
C10_PaidStaysPaid ==
  \A r \in prevTransactions :
    r.status = PAID => \A q \in dbTransactions : q.id = r.id => q.status = PAID

\* The signed value a row contributes to its source account: a paid income
\* adds its value, a paid expense subtracts it, any other row counts nothing.
signedValue(t) ==
  IF t.status # PAID THEN 0
  ELSE IF t.type = INCOME THEN t.value
  ELSE IF t.type = EXPENSE THEN 0 - t.value
  ELSE 0

RECURSIVE ledgerSum(_, _)
ledgerSum(rows, id) ==
  IF rows = {} THEN 0
  ELSE LET t == CHOOSE r \in rows : TRUE
       IN (IF t.accountId = id THEN signedValue(t) ELSE 0) + ledgerSum(rows \ {t}, id)

\* Every stored balance is the sum of the paid incomes minus the paid expenses
\* stored against the account.
balancesMatchLedger ==
  \A a \in dbAccounts : a.balance = ledgerSum(dbTransactions, a.id)

\* The step is a ledger write made from props that lag the store, or one of
\* whose backend calls failed, or the save of an edit.
untidyStep ==
  /\ last'.txOk
  /\ \/ ~last'.balOk
     \/ last'.kind = "update"
     \/ accounts[last'.c] # dbAccounts
     \/ transactions[last'.c] # {mapTransaction(t) : t \in dbTransactions}

\* C11: starting from balances that match the ledger, inserts, deletions and
\* approvals that each run from refreshed props with every backend call
\* succeeding, and no saved edit, keep every stored balance equal to the sum
\* of the paid incomes minus the paid expenses of the account.
C11_BalanceIsLedgerSum ==
  [][(balancesMatchLedger /\ ~untidyStep) => balancesMatchLedger']_vars

C11_Witness ==
  /\ last.op = "delete" /\ allSucceeded /\ last.fresh
  /\ last.arg \in prevTransactions /\ last.arg.status = PAID
  /\ balancesMatchLedger
  /\ \E t \in dbTransactions : t.status = PAID /\ t.type = EXPENSE
  /\ \E a \in dbAccounts : a.balance # 0

\* C12: when the backend rejects the delete call of a confirmed
\* handleDeleteTransaction, no row is removed and no balance is written, the
\* failure is alerted, and the loading flag, once set, is false again.
C12_DeleteFailureAborts ==
  (last.op = "delete" /\ last.confirmed /\ ~last.txOk)
  => /\ dbTransactions = prevTransactions
     /\ dbAccounts = prevAccounts
     /\ last.alert = "Erro ao excluir lancamento"
     /\ last.loading /\ ~loading[last.c]

C12_Witness ==
  /\ last.op = "delete" /\ last.confirmed /\ ~last.txOk
  /\ last.alert = "Erro ao excluir lancamento"
  /\ \A t \in transactions[last.c] :
       /\ t \in dbTransactions /\ t.status = PAID /\ t.type = EXPENSE
       /\ has(accounts[last.c], t.accountId)
  /\ transactions[last.c] # {}

\* C13: two sessions that hold the same balance B of an account in their
\* props and each insert a paid transaction against it lose an update. A paid
\* income or expense insert whose calls all succeed stores the balance the
\* session holds in its props adjusted by the value, whatever the stored
\* balance was; so after both inserts both rows are stored and the stored
\* balance is B adjusted by the later insert alone (C13_Witness).
C13_InsertWritesFromProps ==
  (/\ last.op = "save" /\ last.kind = "insert" /\ allSucceeded
   /\ last.arg.status = PAID /\ last.arg.type \in {INCOME, EXPENSE}
   /\ has(accounts[last.c], last.arg.accountId))
  => balanceOf(dbAccounts, last.arg.accountId) =
       balanceOf(accounts[last.c], last.arg.accountId)
         + (IF last.arg.type = INCOME THEN last.arg.value ELSE 0 - last.arg.value)

\* Both sessions hold B = 0 for Caixa; the first stored an expense of 2 (stored
\* balance -2), the second then stores an income of 2: both rows are stored
\* and the balance is 0 + 2, not 0 - 2 + 2.
C13_Witness ==
  /\ last.op = "save" /\ last.kind = "insert" /\ allSucceeded /\ ~last.fresh
  /\ last.arg.status = PAID /\ last.arg.type = INCOME /\ last.arg.value = 2
  /\ last.arg.accountId = Caixa /\ last.arg \in dbTransactions
  /\ \E t \in dbTransactions :
       /\ t.id # last.id /\ t.status = PAID /\ t.type = EXPENSE /\ t.value = 2
       /\ t.accountId = Caixa /\ t \notin transactions[last.c]
  /\ balanceOf(accounts[last.c], Caixa) = 0
  /\ balanceOf(prevAccounts, Caixa) = 0 - 2
  /\ balanceOf(dbAccounts, Caixa) = 2

\* C14: in the insert path of handleSaveTransaction the balance write comes
\* after the transaction insert and only when the insert succeeded: a rejected
\* insert leaves every stored row and balance as it was; when the insert
\* succeeds and the balance write fails, the row stays stored (paid) and every
\* stored balance is what it was before, the handler repairs nothing.
C14_InsertBeforeBalance ==
  (last.op = "save" /\ last.kind = "insert") =>
    /\ ~last.txOk => (dbTransactions = prevTransactions /\ dbAccounts = prevAccounts)
    /\ (last.txOk /\ ~last.balOk) =>
         /\ last.arg \in dbTransactions
         /\ dbTransactions = prevTransactions \cup {last.arg}
         /\ dbAccounts = prevAccounts

\* A paid expense is stored, its balance write was rejected: Caixa keeps 0.
C14_Witness ==
  /\ last.op = "save" /\ last.kind = "insert" /\ last.txOk /\ ~last.balOk
  /\ last.fresh /\ last.arg.status = PAID /\ last.arg.type = EXPENSE
  /\ last.arg.accountId = Caixa /\ last.arg \in dbTransactions
  /\ last.arg \notin prevTransactions
  /\ balanceOf(prevAccounts, Caixa) = 0 /\ balanceOf(dbAccounts, Caixa) = 0
  /\ ~isAddingTransaction[last.c] /\ ~loading[last.c]

\* C15: in handleApproveTransaction, when the status update succeeds and the
\* balance write fails, the row is stored as paid and every stored balance is
\* what it was before the approval (no revert, no retry); when the status
\* update fails, no row and no balance is written.
C15_ApproveNoCompensation ==
  (last.op = "approve" /\ last.confirmed) =>
    /\ (last.txOk /\ ~last.balOk) =>
         /\ dbAccounts = prevAccounts
         /\ dbTransactions = updateStatus(prevTransactions, last.id, PAID)
         /\ \A t \in dbTransactions : t.id = last.id => t.status = PAID
    /\ ~last.txOk => (dbAccounts = prevAccounts /\ dbTransactions = prevTransactions)

\* A pending expense of 1 on Caixa is approved, the balance write is rejected:
\* the row is paid and Caixa keeps 0.
C15_Witness ==
  /\ last.op = "approve" /\ last.confirmed /\ last.txOk /\ ~last.balOk
  /\ last.fresh /\ last.arg \in prevTransactions
  /\ last.arg.status = PENDING_APPROVAL /\ last.arg.type = EXPENSE
  /\ last.arg.accountId = Caixa
  /\ [last.arg EXCEPT !.status = PAID] \in dbTransactions
  /\ balanceOf(prevAccounts, Caixa) = 0 /\ balanceOf(dbAccounts, Caixa) = 0

\* The last invocation issued its write to financial_transactions and the
\* backend rejected it.
transactionWriteRejected ==
  last.op \in {"save", "delete", "approve"} /\ last.loading /\ ~last.txOk

\* The last invocation issued its update of financial_accounts (the account
\* was found in the session's props) and the backend rejected it.
balanceWriteRejected ==
  /\ last.op \in {"save", "delete", "approve"} /\ last.txOk /\ ~last.balOk
  /\ has(accounts[last.c], last.arg.accountId)
  /\ last.op = "save" => (last.kind = "insert" /\ last.arg.status = PAID)
  /\ last.op = "delete" => last.arg.status = PAID

errorAlerts ==
  {"Erro ao salvar transacao", "Erro ao excluir lancamento", "Erro ao aprovar transacao"}

\* A rejected write to financial_transactions is alerted (the catch blocks of
\* the three handlers); this holds in every reachable state.
transactionRejectionAlerted ==
  transactionWriteRejected => last.alert \in errorAlerts

\* C16: every backend rejection of a write issued by a ledger handler (the
\* write to financial_transactions of save, delete and approve, and the
\* update of financial_accounts in the insert, delete and approve paths) is
\* alerted to the user as an error.
C16_EveryRejectionAlerted ==
  /\ transactionRejectionAlerted
  /\ balanceWriteRejected => last.alert \in errorAlerts

\* C17: handleDeleteTransaction changes at most the stored balance of the
\* source account of the deleted transaction: every other account, the
\* destination of a transfer included, keeps its stored balance.
C17_DeleteTouchesSourceOnly ==
  last.op = "delete" =>
    /\ othersUnchanged(last.arg.accountId)
    /\ \A a \in prevAccounts : has(dbAccounts, a.id)
    /\ (last.txOk /\ last.arg.toAccountId # NoId /\ last.arg.toAccountId # last.arg.accountId)
         => balanceOf(dbAccounts, last.arg.toAccountId)
              = balanceOf(prevAccounts, last.arg.toAccountId)

\* A paid transfer from Caixa to Banco is deleted by a session whose props
\* hold an older balance of Banco than the store: Banco keeps its stored
\* balance.
C17_Witness ==
  /\ last.op = "delete" /\ allSucceeded /\ ~last.fresh
  /\ last.arg.type = TRANSFER /\ last.arg.status = PAID
  /\ last.arg.accountId = Caixa /\ last.arg.toAccountId = Banco
  /\ last.arg \in prevTransactions /\ last.arg \notin dbTransactions
  /\ balanceOf(accounts[last.c], Banco) # balanceOf(prevAccounts, Banco)
  /\ balanceOf(dbAccounts, Banco) = balanceOf(prevAccounts, Banco)

\* C18: the executed budget of a project is never recalculated: a step stores
\* a new project with budget_executed 0, keeps the budget_executed of every
\* project it finds stored (a project update included), and the transaction
\* handlers (save, delete, approve) leave financial_projects as it is.
C18_BudgetExecutedNeverRecalculated ==
  [][/\ \A p \in dbProjects' :
          IF has(dbProjects, p.id)
          THEN p.budgetExecuted = find(dbProjects, p.id).budgetExecuted
          ELSE p.budgetExecuted = 0
     /\ last'.op \in {"save", "delete", "approve"} => dbProjects' = dbProjects]_vars

\* The stored project has an expense booked on it that was approved (paid);
\* the project is then renamed and its planned budget changed: its
\* budget_executed is the one the table held at the start.
C18_Witness ==
  /\ last.op = "saveProject" /\ last.kind = "update" /\ last.txOk
  /\ last.id = ProjectIdSeq[1]
  /\ \E p \in dbProjects :
       /\ p.id = last.id /\ p.name = "n" /\ p.budgetPlanned = 2
       /\ p.budgetExecuted = MaxBal
  /\ \E t \in dbTransactions :
       t.projectId = last.id /\ t.status = PAID /\ t.type = EXPENSE

\* C19: when the notification insert of Tasks.handleSave or
\* Schedules.handleSave fails (the backend answers with an error, or the call
\* throws), the primary flow is not interrupted: the task or schedule is
\* stored, globalError is null, onRefresh was called and the modal is closed,
\* as after a notification insert that succeeded.
C19_NotificationFailureIgnored ==
  (lastSave.primaryOk /\ lastSave.notify # "none") =>
    /\ \E r \in dbRows[lastSave.page] : r.id = lastSave.id
    /\ globalError[lastSave.page] = NoError
    /\ lastSave.refreshed /\ lastSave.closed
    /\ ~isModalOpen[lastSave.page] /\ ~pageLoading[lastSave.page]

\* A schedule with u2 assigned is stored, the notification insert threw and
\* no notification is stored for it: no error is shown, the modal is closed.
C19_Witness ==
  /\ lastSave.page = "schedules" /\ lastSave.kind = "insert"
  /\ lastSave.primaryOk /\ lastSave.notify = "throws"
  /\ \E r \in dbRows["schedules"] : r.id = lastSave.id /\ "u2" \in r.assigned
  /\ \A n \in dbNotifications : n.type # "schedule_update"
  /\ globalError["schedules"] = NoError /\ ~isModalOpen["schedules"]
  /\ lastSave.refreshed

\* The letters a and b are the same up to case.
sameLetter(a, b) ==
  a = b \/ \E i \in 1..Len(UpperChars) : {a, b} = {UpperChars[i], LowerChars[i]}

\* The word w stands in s at position i, in any mix of upper and lower case.
matchesAt(s, w, i) ==
  /\ i + Len(w) - 1 <= Len(s)
  /\ \A j \in 1..Len(w) : sameLetter(s[i + j - 1], w[j])

containsIgnoringCase(s, w) == \E i \in 1..Len(s) : matchesAt(s, w, i)

equalsIgnoringCase(s, w) == Len(s) = Len(w) /\ matchesAt(s, w, 1)

\* C20: isCoordinator(role) is true exactly when role is a non-empty string
\* that, case ignored, equals 'admin' or contains 'coorden'; it is false for
\* every other value, among them 'Tesoureiro', 'Agente', 'Editor', '' and
\* null/undefined.
C20_IsCoordinatorCaseInsensitive ==
  roleResult.called =>
    /\ roleResult.value =
         (/\ ~roleArg.isNull /\ roleArg.text # <<>>
          /\ \/ equalsIgnoringCase(roleArg.text, StrAdmin)
             \/ containsIgnoringCase(roleArg.text, StrCoorden))
    /\ roleArg \in {NullRole, RoleOf(<<>>), RoleOf(StrTesoureiro), RoleOf(StrAgente),
                     RoleOf(StrEditor)} => ~roleResult.value

\* 'Vice-cOOrdenadora': 'coorden' in mixed case inside a longer role name.
C20_Witness ==
  /\ roleResult.called /\ roleResult.value
  /\ roleArg = RoleOf(<<"V","i","c","e","-">> \o withCase(StrCoorden, {2, 3})
                        \o <<"a","d","o","r","a">>)

\* C21: the value of a transaction is applied to the stored balance of its
\* source account at most once in the transaction's lifetime.  Where the one
\* row ever stored is an expense whose value and account no save has changed
\* (nothing inserted, nothing deleted, balances started at 0), the balance of
\* its account is 0 or 0 minus its value, whatever was opened, closed, saved,
\* approved and refreshed.
C21_AppliedAtMostOnce ==
  (nextId = 2 /\ \E st \in {PENDING_APPROVAL, PAID} : dbTransactions = {SeedRow(EXPENSE, st)})
  => \A t \in dbTransactions :
       /\ 0 - t.value <= balanceOf(dbAccounts, t.accountId)
       /\ balanceOf(dbAccounts, t.accountId) <= 0

\* C22: whenever the 'Novo Lancamento' button opens the transaction modal,
\* editingId is null and the form holds its reset values, so that the save
\* that follows inserts a row and updates none.
C22_NovoLancamentoStartsClean ==
  [][\A c \in Clients :
       NovoLancamento(c) => (editingId'[c] = NoId /\ transactionForm'[c] = resetForm)]_vars

\* The last invocation is a ledger mutation of an income or expense row whose
\* calls all succeeded: a paid insert, the delete of a row shown as paid, or
\* an approval, the row deleted or approved being stored as it is shown.
ledgerMutation ==
  /\ allSucceeded /\ last.arg.type \in {INCOME, EXPENSE}
  /\ \/ last.op = "save" /\ last.kind = "insert" /\ last.arg.status = PAID
     \/ last.op = "delete" /\ last.arg.status = PAID /\ last.arg \in prevTransactions
     \/ last.op = "approve" /\ last.arg \in prevTransactions

\* What that mutation is meant to add to the balance of its account.
ledgerAdjustment ==
  IF (last.arg.type = INCOME) = (last.op # "delete")
  THEN last.arg.value ELSE 0 - last.arg.value

\* C23: within one session, a ledger mutation started while the accounts prop
\* still holds what it held before an earlier mutation of the session (the
\* refresh has not come in) takes effect together with the earlier one: the
\* stored balance of its account is the stored balance before it plus its
\* adjustment.
C23_BackToBackBothApply ==
  (ledgerMutation /\ ~last.fresh /\ has(accounts[last.c], last.arg.accountId))
  => balanceChangedBy(last.arg.accountId, ledgerAdjustment)

\* C24: after a delete that succeeded, the stored balance of the source
\* account no longer includes the deleted row's contribution: when the row
\* deleted was the only row stored, was stored as paid and the balance of its
\* account held just its contribution, that balance is 0 afterwards, also
\* when the deleting session still showed the row as pending.
C24_DeleteRemovesContribution ==
  (/\ last.op = "delete" /\ allSucceeded /\ dbTransactions = {}
   /\ \E r \in prevTransactions :
        /\ r.id = last.id /\ r.status = PAID
        /\ balanceOf(prevAccounts, r.accountId) = signedValue(r))
  => balanceOf(dbAccounts, last.arg.accountId) = 0

\* C25: saving an edit of an account in which the user changed only the name
\* leaves the stored balance of that account as it was immediately before
\* the save, also when the session's list of accounts was up to date at the
\* save and a transaction was approved on the account after the form opened.
C25_AccountEditKeepsBalance ==
  (/\ last.op = "saveAccount" /\ last.kind = "update" /\ last.txOk
   /\ last.empty = {} /\ last.fresh /\ has(prevAccounts, last.id))
  => balanceOf(dbAccounts, last.id) = balanceOf(prevAccounts, last.id)

\* The sum of the votes of all options of a poll.
pollTotal(options) == options["o1"] + options["o2"]

\* C26: a successful vote raises the stored count of the chosen option by one
\* and leaves the other options as stored, so the stored total of the poll
\* is the initial total plus the number of successful votes.
C26_EveryVoteCounts ==
  /\ lastVote.ok =>
       \A o \in PollOptions :
         dbPoll[o] = lastVote.before[o] + (IF o = lastVote.optionId THEN 1 ELSE 0)
  /\ pollTotal(dbPoll) = votesCast

\* C27: a user who takes a slot removes or replaces no assignment of another
\* user that is not declined, in any slot of the schedule; so when two users
\* take two different vacant slots, both assignments are stored.
C27_TakingKeepsOthersAssignments ==
  (lastSlot.op = "toggle" /\ lastSlot.ok)
  => \A i \in RoleIndexes :
       (/\ lastSlot.before[i].assignedUserId \notin {"", userIdOf(lastSlot.c)}
        /\ lastSlot.before[i].status # "declined")
       => dbRoles[i].assignedUserId = lastSlot.before[i].assignedUserId

\* C28: in the stored schedule a slot has a status if and only if it has an
\* assigned user.
C28_StatusIffAssigned ==
  \A i \in RoleIndexes : (dbRoles[i].status # "") <=> (dbRoles[i].assignedUserId # "")

\* C29: for every role value the inline admin checks of Feed, Schedules and
\* Inventory return what isCoordinator returns.
C29_AdminChecksAgree ==
  roleResult.called
  => /\ roleResult.feed = roleResult.value
     /\ roleResult.schedules = roleResult.value
     /\ roleResult.inventory = roleResult.value

====
